---- MODULE Spec2Model ----
(***************************************************************************)
(* Model of scripts/build_xsd_index.py: the pipeline of create_index over  *)
(* a directory of XSD files (parse every file, assign component ids,       *)
(* compute reachable schema files, build the catalog, resolve the          *)
(* references of every component, link the inbound edges, return the       *)
(* index, write it).                                                       *)
(*                                                                         *)
(* Text that the code takes apart (names, raw qualified names, file name   *)
(* stems) is a sequence of one-character strings; text that the code only  *)
(* builds and compares (ids, contexts, file names) is a string built by    *)
(* concatenation.                                                          *)
(***************************************************************************)
EXTENDS Integers, Sequences, FiniteSets, TLC

(***************************************************************************)
(* Bounds of the input directory.                                          *)
(***************************************************************************)
MaxFiles == 2
MaxDecls == 2
MaxComponents == 3
MaxDeps == 1
MaxPlainChildren == 1

(***************************************************************************)
(* Program constants.                                                      *)
(***************************************************************************)
XS_NS == "http://www.w3.org/2001/XMLSchema"
BUILTIN_NS == XS_NS
GLOBAL_KINDS == {"element", "complexType", "simpleType", "attribute", "group", "attributeGroup"}
RefAttrNames == <<"type", "base", "ref", "itemType", "memberTypes", "substitutionGroup">>

(***************************************************************************)
(* Text helpers.                                                           *)
(***************************************************************************)
\* the printable ASCII characters in code order, from the space (32) on (the
\* grave accent, 96, is spelled out)
AsciiChars ==
  <<" ", "!", "\"", "#", "$", "%", "&", "'", "(", ")", "*", "+", ",", "-", ".", "/",
    "0", "1", "2", "3", "4", "5", "6", "7", "8", "9", ":", ";", "<", "=", ">", "?",
    "@", "A", "B", "C", "D", "E", "F", "G", "H", "I", "J", "K", "L", "M", "N", "O",
    "P", "Q", "R", "S", "T", "U", "V", "W", "X", "Y", "Z", "[", "\\", "]", "^", "_",
    "grave", "a", "b", "c", "d", "e", "f", "g", "h", "i", "j", "k", "l", "m", "n", "o",
    "p", "q", "r", "s", "t", "u", "v", "w", "x", "y", "z", "{", "|", "}", "~">>

CharCodes ==
  [c \in {AsciiChars[j] : j \in 1..Len(AsciiChars)} |->
     31 + (CHOOSE j \in 1..Len(AsciiChars) : AsciiChars[j] = c)]

CharCode(c) == CharCodes[c]

\* the words the code writes or compares, character by character
Chars ==
  [element           |-> <<"e","l","e","m","e","n","t">>,
   complexType       |-> <<"c","o","m","p","l","e","x","T","y","p","e">>,
   simpleType        |-> <<"s","i","m","p","l","e","T","y","p","e">>,
   attribute         |-> <<"a","t","t","r","i","b","u","t","e">>,
   group             |-> <<"g","r","o","u","p">>,
   attributeGroup    |-> <<"a","t","t","r","i","b","u","t","e","G","r","o","u","p">>,
   annotation        |-> <<"a","n","n","o","t","a","t","i","o","n">>,
   type              |-> <<"t","y","p","e">>,
   base              |-> <<"b","a","s","e">>,
   ref               |-> <<"r","e","f">>,
   itemType          |-> <<"i","t","e","m","T","y","p","e">>,
   memberTypes       |-> <<"m","e","m","b","e","r","T","y","p","e","s">>,
   substitutionGroup |-> <<"s","u","b","s","t","i","t","u","t","i","o","n","G","r","o","u","p">>,
   schemaDash        |-> <<"s","c","h","e","m","a","-">>,
   xsd               |-> <<".","x","s","d">>,
   item              |-> <<"i","t","e","m">>,
   anonymous         |-> <<"(","a","n","o","n","y","m","o","u","s",")">>,
   within            |-> <<" ",">"," ">>,
   sequence          |-> <<"s","e","q","u","e","n","c","e">>,
   complexContent    |-> <<"c","o","m","p","l","e","x","C","o","n","t","e","n","t">>,
   simpleContent     |-> <<"s","i","m","p","l","e","C","o","n","t","e","n","t">>,
   extension         |-> <<"e","x","t","e","n","s","i","o","n">>,
   restriction       |-> <<"r","e","s","t","r","i","c","t","i","o","n">>,
   elementField      |-> <<":","e","l","e","m","e","n","t","-","f","i","e","l","d",":">>,
   attributeField    |-> <<":","a","t","t","r","i","b","u","t","e","-","f","i","e","l","d",":">>,
   atGroup           |-> <<"@","g","r","o","u","p",":">>,
   attributeGroupName |-> <<"(","a","t","t","r","i","b","u","t","e","G","r","o","u","p",")">>]

DigitChars == {"0","1","2","3","4","5","6","7","8","9"}
SpaceChars == {" ", "\t", "\n"}

\* str(n) for n >= 0
RECURSIVE Digits(_)
Digits(n) ==
  IF n < 10 THEN <<AsciiChars[17 + n]>> ELSE Digits(n \div 10) \o <<AsciiChars[17 + (n % 10)]>>

\* str.lower() on one character
LowerChar(c) ==
  IF c \in DOMAIN CharCodes /\ CharCode(c) \in 65..90
  THEN AsciiChars[CharCode(c) + 32 - 31]
  ELSE c

\* the class [a-z0-9._-] of slugify
IsSlugChar(c) ==
  \/ c \in DOMAIN CharCodes /\ CharCode(c) \in 97..122
  \/ c \in DigitChars
  \/ c \in {".", "_", "-"}

RECURSIVE StripLeft(_, _)
StripLeft(s, drop) ==
  IF s # <<>> /\ Head(s) \in drop THEN StripLeft(Tail(s), drop) ELSE s

RECURSIVE StripRight(_, _)
StripRight(s, drop) ==
  IF s # <<>> /\ s[Len(s)] \in drop THEN StripRight(SubSeq(s, 1, Len(s) - 1), drop) ELSE s

Strip(s, drop) == StripRight(StripLeft(s, drop), drop)

\* re.sub(r"[^a-z0-9._-]+", "-", s) followed by re.sub(r"-{2,}", "-", s):
\* every run of characters outside the class, and then every run of dashes,
\* becomes one dash
RECURSIVE DashRuns(_, _)
DashRuns(s, afterDash) ==
  IF s = <<>> THEN <<>>
  ELSE LET c == Head(s)
           d == IF IsSlugChar(c) THEN c ELSE "-"
       IN IF d = "-"
          THEN (IF afterDash THEN <<>> ELSE <<"-">>) \o DashRuns(Tail(s), TRUE)
          ELSE <<d>> \o DashRuns(Tail(s), FALSE)

slugify(value) ==
  LET lowered  == Strip([i \in 1..Len(value) |-> LowerChar(value[i])], SpaceChars)
      stripped == Strip(DashRuns(lowered, FALSE), {"-"})
  IN IF stripped = <<>> THEN Chars.item ELSE stripped

\* parse_qname: split at the first colon; has = FALSE stands for prefix None
parse_qname(raw) ==
  IF \E i \in 1..Len(raw) : raw[i] = ":"
  THEN LET i == CHOOSE j \in 1..Len(raw) :
                  raw[j] = ":" /\ \A h \in 1..(j - 1) : raw[h] # ":"
       IN [has |-> TRUE, prefix |-> SubSeq(raw, 1, i - 1), local |-> SubSeq(raw, i + 1, Len(raw))]
  ELSE [has |-> FALSE, prefix |-> <<>>, local |-> raw]

(***************************************************************************)
(* The input: the files of the directory.  A node of a parsed tree is its  *)
(* tag (local name) and its attributes (<<>> = attribute absent); a        *)
(* top-level child of a schema root is the sequence of the nodes of its    *)
(* subtree in document order (the order of ElementTree's iter()), the      *)
(* child itself first; parent is the position of the parent of a node in   *)
(* that sequence (the first node has none).                                *)
(***************************************************************************)
NoText == <<>>

Node(tag, name, attr, raw) ==
  [tag |-> tag, name |-> name, parent |-> 1,
   type              |-> IF attr = "type" THEN raw ELSE NoText,
   base              |-> IF attr = "base" THEN raw ELSE NoText,
   ref               |-> IF attr = "ref" THEN raw ELSE NoText,
   itemType          |-> IF attr = "itemType" THEN raw ELSE NoText,
   memberTypes       |-> IF attr = "memberTypes" THEN raw ELSE NoText,
   substitutionGroup |-> IF attr = "substitutionGroup" THEN raw ELSE NoText]

\* the node as a child of the node at position parent
Under(parent, node) == [node EXCEPT !.parent = parent]

\* a node that carries both a type and a ref
WithRef(node, raw) == [node EXCEPT !.ref = raw]

\* a schemaLocation: scheme://dir/name; NoLocation is the absent (or blank) attribute
Location(scheme, dir, name) == [scheme |-> scheme, dir |-> dir, name |-> name]
NoLocation == Location("", "", <<>>)

FileName(stem) == stem \o Chars.xsd

nT == <<"T">>
nt == <<"t">>
nx == <<"x">>
rawT == <<"T">>
rawt == <<"t">>
rawXsT == <<"x", "s", ":", "T">>
rawPT == <<"p", ":", "T">>

\* top-level declarations that carry references
RefShapes ==
  { <<Node("complexType", nT, "", NoText), Node("element", nx, "type", rawT)>>,
    <<Node("complexType", nT, "", NoText), Node("element", nx, "type", rawt)>>,
    <<Node("complexType", nt, "", NoText), Node("element", nx, "type", rawT)>>,
    <<Node("complexType", nt, "", NoText), Node("element", nx, "type", rawXsT)>>,
    <<Node("complexType", nt, "", NoText), Node("element", nx, "type", rawPT)>>,
    <<Node("element", nT, "type", rawT), Node("element", nx, "type", rawT)>> }

\* top-level children of the dependency-centred inputs: two declarations of
\* one slug, a child that is no global declaration, a declaration whose name
\* is blank
DepShapes ==
  { <<Node("complexType", nT, "", NoText)>>,
    <<Node("complexType", nt, "", NoText), Node("element", nx, "type", rawt)>>,
    <<Node("annotation", NoText, "", NoText)>>,
    <<Node("element", <<" ">>, "type", rawT)>> }

Stems == {<<"A">>, <<"a">>, <<"b">>}
RefStems == {<<"a">>, <<"b">>}

\* the order of sorted() on the paths of one directory
RECURSIVE TextLess(_, _)
TextLess(a, b) ==
  IF b = <<>> THEN FALSE
  ELSE IF a = <<>> THEN TRUE
  ELSE IF CharCode(Head(a)) # CharCode(Head(b)) THEN CharCode(Head(a)) < CharCode(Head(b))
  ELSE TextLess(Tail(a), Tail(b))

Directive(kind, location) == [kind |-> kind, location |-> location]

File(stem, root, tns, nsDecl, deps, children) ==
  [stem |-> stem, root |-> root, targetNamespace |-> tns, nsDecl |-> nsDecl,
   deps |-> deps, children |-> children]

SeqsUpTo(S, n) == UNION {[1..k -> S] : k \in 0..n}

NsDecl == <<"p">> :> "urn:a"

\* files whose declarations refer to one another; a file may import the
\* other file of the pair
RefFiles(stem) ==
  { File(stem, "schema", tns, NsDecl, deps, ch) :
      tns \in {"urn:a", XS_NS},
      deps \in {<<>>, <<Directive("import", Location("", "", FileName(<<"b">>)))>>},
      ch \in SeqsUpTo(RefShapes, MaxDecls) }

DepDirectives ==
  { Directive("import", Location("", "", FileName(<<"a">>))),
    Directive("include", Location("", "", FileName(<<"b">>))),
    Directive("import", Location("http", "h", FileName(<<"a">>))),
    Directive("import", NoLocation) }

\* files that differ in their root, their dependencies and the slugs of
\* their names
DepFiles(stem) ==
  { File(stem, "html", "", NsDecl, <<>>, <<>>) } \cup
  { File(stem, "schema", "urn:a", NsDecl, deps, ch) :
      deps \in SeqsUpTo(DepDirectives, MaxDeps), ch \in SeqsUpTo(DepShapes, MaxPlainChildren) }

IsDeclaration(child) ==
  /\ child[1].tag \in GLOBAL_KINDS
  /\ Strip(child[1].name, SpaceChars) # <<>>

RECURSIVE CountDecls(_)
CountDecls(files) ==
  IF files = <<>> THEN 0
  ELSE Cardinality({j \in 1..Len(Head(files).children) : IsDeclaration(Head(files).children[j])})
       + CountDecls(Tail(files))

\* the listings sorted(input_dir.glob("*.xsd")) can return: distinct file
\* names in increasing order
Listings(files) ==
  UNION { { l \in [1..n -> files] :
              /\ \A j \in 1..(n - 1) : TextLess(l[j].stem, l[j + 1].stem)
              /\ CountDecls(l) <= MaxComponents } : n \in 1..MaxFiles }

Inputs ==
  Listings(UNION {RefFiles(s) : s \in RefStems}) \cup Listings(UNION {DepFiles(s) : s \in Stems})

\* the directories and files below the input directory: its subdirectory
\* CopyDir holds a copy of every file of the listing
CopyDir == "copy"

\* the files on disk: resolved.exists()
PathExists(files, location) ==
  /\ location.dir \in {"", CopyDir}
  /\ \E j \in 1..Len(files) : FileName(files[j].stem) = location.name

(***************************************************************************)
(* Inputs whose components hold nested declarations: element and attribute *)
(* fields at several depths, a repeated declaration, inline types, names   *)
(* under a prefix no file declares and under an empty prefix.              *)
(***************************************************************************)
MaxFieldDecls == 2
MaxTargetDecls == 2
MaxFieldComponents == 4

na == <<"a">>
ny == <<"y">>
nz == <<"z">>
nw == <<"w">>
rawQT == <<"q", ":", "T">>
rawColonT == <<":", "T">>

Plain(tag) == Node(tag, NoText, "", NoText)

FieldShapes ==
  { \* complexType t: sequence(x : T, x : T, y { complexType: sequence(z : q:T) })
    <<Node("complexType", nt, "", NoText),
      Under(1, Plain("sequence")),
      Under(2, Node("element", nx, "type", rawT)),
      Under(2, Node("element", nx, "type", rawT)),
      Under(2, Node("element", ny, "", NoText)),
      Under(5, Plain("complexType")),
      Under(6, Plain("sequence")),
      Under(7, Node("element", nz, "type", rawQT))>>,
    \* group t: sequence(element ref p:T, w : :T)
    <<Node("group", nt, "", NoText),
      Under(1, Plain("sequence")),
      Under(2, Node("element", NoText, "ref", rawPT)),
      Under(2, Node("element", nw, "type", rawColonT))>>,
    \* complexType t: attribute a : T, attributeGroup ref p:T
    <<Node("complexType", nt, "", NoText),
      Under(1, Node("attribute", na, "type", rawT)),
      Under(1, Node("attributeGroup", NoText, "ref", rawPT))>>,
    \* attributeGroup t: attribute a with type T and ref p:T
    <<Node("attributeGroup", nt, "", NoText),
      Under(1, WithRef(Node("attribute", na, "type", rawT), rawPT))>>,
    \* element t { complexType: complexContent: extension of T:
    \*             sequence(x { simpleType: restriction of xs:T }) }
    <<Node("element", nt, "", NoText),
      Under(1, Plain("complexType")),
      Under(2, Plain("complexContent")),
      Under(3, Node("extension", NoText, "base", rawT)),
      Under(4, Plain("sequence")),
      Under(5, Node("element", nx, "", NoText)),
      Under(6, Plain("simpleType")),
      Under(7, Node("restriction", NoText, "base", rawXsT))>> }

\* declarations of the name T, one of every kind a field can refer to
TargetShapes ==
  { <<Node(kind, nT, "", NoText)>> :
      kind \in {"complexType", "simpleType", "element", "attribute", "attributeGroup"} }

\* a.xsd holds the declarations with fields and may import b.xsd; b.xsd
\* holds targets under the namespace of a.xsd or under another one
FieldInputs ==
  { l \in
      { <<File(<<"a">>, "schema", "urn:a", NsDecl, deps, ch)>> :
          deps \in {<<>>, <<Directive("import", Location("", "", FileName(<<"b">>)))>>},
          ch \in SeqsUpTo(FieldShapes \cup TargetShapes, MaxFieldDecls) }
      \cup
      { <<File(<<"a">>, "schema", "urn:a", NsDecl, deps, ch),
          File(<<"b">>, "schema", tns, NsDecl, <<>>, targets)>> :
          deps \in {<<>>, <<Directive("import", Location("", "", FileName(<<"b">>)))>>},
          ch \in SeqsUpTo(FieldShapes, MaxFieldDecls),
          tns \in {"urn:a", "urn:b"},
          targets \in SeqsUpTo(TargetShapes, MaxTargetDecls) } :
      CountDecls(l) <= MaxFieldComponents }

(***************************************************************************)
(* Inputs whose files depend on one another: chains, cycles, files that    *)
(* include themselves, a dependency on a file that is missing and one on   *)
(* the copy of a.xsd in the subdirectory.                                  *)
(***************************************************************************)
MaxReachFiles == 3
MaxReachDeps == 2

ReachStems == {<<"a">>, <<"b">>, <<"c">>}

ReachDirectives ==
  { Directive("include", Location("", "", FileName(<<"b">>))),
    Directive("import", Location("", "", FileName(<<"c">>))),
    Directive("import", Location("", CopyDir, FileName(<<"a">>))),
    Directive("import", Location("", "", FileName(<<"m">>))) }

ReachFiles(stem) ==
  { File(stem, "schema", "urn:a", NsDecl, deps, << <<Node("complexType", nT, "", NoText)>> >>) :
      deps \in SeqsUpTo(ReachDirectives, MaxReachDeps) }

ReachInputs ==
  UNION { { l \in [1..n -> UNION {ReachFiles(s) : s \in ReachStems}] :
              \A j \in 1..(n - 1) : TextLess(l[j].stem, l[j + 1].stem) } :
          n \in 1..MaxReachFiles }

(***************************************************************************)
(* State.                                                                  *)
(***************************************************************************)
VARIABLES
  input,             \* the listing of the input directory
  pc,                \* the statement of main / create_index that runs next
  i,                 \* the index of the running loop
  schemas,           \* List[SchemaDoc]
  components,        \* every Component, in the order of schemas and of schema.components
  by_qname,          \* the catalog of build_catalog
  components_by_id,  \* dict id -> component, in insertion order
  warnings,          \* the warnings list of create_index
  incoming_dedupe,   \* the set of edge keys of create_index
  index_data,        \* what create_index returned
  written,           \* the index write_index wrote
  resolve_calls      \* the calls of resolve_qname that collect_references_for_component made

vars == <<input, pc, i, schemas, components, by_qname, components_by_id,
          warnings, incoming_dedupe, index_data, written, resolve_calls>>

\* None, and the value of an Optional
None == <<>>
Some(v) == <<v>>

\* the state before parse_all_schemas reads the first file
Fresh ==
  /\ pc = "parse"
  /\ i = 1
  /\ schemas = <<>>
  /\ components = <<>>
  /\ by_qname = <<>>
  /\ components_by_id = <<>>
  /\ warnings = <<>>
  /\ incoming_dedupe = {}
  /\ index_data = None
  /\ written = None
  /\ resolve_calls = <<>>

Init == input \in Inputs /\ Fresh

InitFields == input \in FieldInputs /\ Fresh

InitReach == input \in ReachInputs /\ Fresh

(***************************************************************************)
(* Sorting as list.sort(key=...) does it: stable, keys compared as tuples  *)
(* of strings.                                                             *)
(***************************************************************************)
RECURSIVE KeyLess(_, _)
KeyLess(a, b) ==
  IF a = <<>> \/ b = <<>> THEN a = <<>> /\ b # <<>>
  ELSE IF Head(a) = Head(b) THEN KeyLess(Tail(a), Tail(b))
  ELSE TextLess(Head(a), Head(b))

\* pairs are [key, val]; the pair goes before the first pair of a greater key
RECURSIVE InsertByKey(_, _)
InsertByKey(sorted, pair) ==
  IF sorted = <<>> THEN <<pair>>
  ELSE IF KeyLess(pair.key, Head(sorted).key) THEN <<pair>> \o sorted
  ELSE <<Head(sorted)>> \o InsertByKey(Tail(sorted), pair)

RECURSIVE SortPairs(_, _)
SortPairs(pairs, sorted) ==
  IF pairs = <<>> THEN sorted ELSE SortPairs(Tail(pairs), InsertByKey(sorted, Head(pairs)))

SortedValues(pairs) ==
  LET sorted == SortPairs(pairs, <<>>) IN [j \in 1..Len(sorted) |-> sorted[j].val]

(***************************************************************************)
(* parse_schema                                                            *)
(***************************************************************************)
PrefixXs == <<"x", "s">>
PrefixXsd == <<"x", "s", "d">>

collect_nsmap(file) ==
  [p \in {PrefixXs, PrefixXsd} \cup DOMAIN file.nsDecl |->
     IF p \in DOMAIN file.nsDecl THEN file.nsDecl[p] ELSE XS_NS]

\* the Dependency of one include / import child
ParseDependency(directive, files) ==
  LET location == directive.location
      local == location # NoLocation /\ location.scheme = ""
  IN [kind |-> directive.kind,
      location |-> location,
      resolved_file_name |-> IF local THEN location.name ELSE NoText,
      exists |-> local /\ PathExists(files, location)]

\* the schema document and the component skeletons of one file whose root
\* is a schema; firstComponent is the position of its first component in
\* the list of all components
parse_schema(file, files, schemaIndex, firstComponent) ==
  LET decls == SelectSeq(file.children, IsDeclaration)
      comps == [j \in 1..Len(decls) |->
                  [schema |-> schemaIndex,
                   kind |-> decls[j][1].tag,
                   name |-> Strip(decls[j][1].name, SpaceChars),
                   node |-> decls[j],
                   namespace |-> file.targetNamespace,
                   id |-> NoText,
                   element_fields |-> <<>>,
                   attribute_fields |-> <<>>,
                   references |-> <<>>,
                   incoming |-> <<>>]]
  IN [schema |->
        [file_name |-> FileName(file.stem),
         id |-> Chars.schemaDash \o slugify(file.stem),
         nsmap |-> collect_nsmap(file),
         target_namespace |-> file.targetNamespace,
         dependencies |-> [j \in 1..Len(file.deps) |-> ParseDependency(file.deps[j], files)],
         components |-> [j \in 1..Len(decls) |-> firstComponent + j - 1],
         reachable_schema_files |-> {}],
      components |-> comps]

\* mutant: the root is not looked at
IsSchemaRootAny(file) == TRUE

\* `local_name(root.tag) != "schema"` raises
IsSchemaRoot(file) == file.root = "schema"

\* one iteration of the loop of parse_all_schemas; the ValueError of a
\* root that is no schema leaves create_index and main
ParseSchema ==
  /\ pc = "parse"
  /\ i <= Len(input)
  /\ IF ~IsSchemaRoot(input[i])
     THEN /\ pc' = "aborted"
          /\ UNCHANGED <<i, schemas, components>>
     ELSE LET parsed == parse_schema(input[i], input, Len(schemas) + 1, Len(components) + 1)
          IN /\ schemas' = Append(schemas, parsed.schema)
             /\ components' = components \o parsed.components
             /\ i' = i + 1
             /\ pc' = IF i = Len(input) THEN "assign_component_ids" ELSE "parse"
  /\ UNCHANGED <<input, by_qname, components_by_id, warnings, incoming_dedupe,
                 index_data, written, resolve_calls>>

(***************************************************************************)
(* assign_component_ids                                                    *)
(***************************************************************************)
\* the components in the order of `for schema in schemas: for component in
\* schema.components`
RECURSIVE ComponentOrder(_)
ComponentOrder(docs) ==
  IF docs = <<>> THEN <<>> ELSE Head(docs).components \o ComponentOrder(Tail(docs))

IdBase(schema, component) ==
  schema.id \o <<":">> \o slugify(Chars[component.kind]) \o <<":">> \o slugify(component.name)

\* mutant: the sequence number is left out
ComponentIdNoCount(base, count) == base

ComponentId(base, count) == base \o <<":">> \o Digits(count)

RECURSIVE AssignFrom(_, _, _, _)
AssignFrom(order, docs, comps, used) ==
  IF order = <<>> THEN comps
  ELSE LET c == Head(order)
           base == IdBase(docs[comps[c].schema], comps[c])
           count == (IF base \in DOMAIN used THEN used[base] ELSE 0) + 1
       IN AssignFrom(Tail(order), docs,
                     [comps EXCEPT ![c].id = ComponentId(base, count)],
                     (base :> count) @@ used)

assign_component_ids(docs, comps) == AssignFrom(ComponentOrder(docs), docs, comps, <<>>)

AssignComponentIds ==
  /\ pc = "assign_component_ids"
  /\ components' = assign_component_ids(schemas, components)
  /\ pc' = "compute_reachable_schemas"
  /\ UNCHANGED <<input, i, schemas, by_qname, components_by_id, warnings,
                 incoming_dedupe, index_data, written, resolve_calls>>

(***************************************************************************)
(* compute_reachable_schemas                                               *)
(***************************************************************************)
\* by_file_name.get(name): the last schema of that file name, 0 for None
ByFileName(docs, name) ==
  IF \E j \in 1..Len(docs) : docs[j].file_name = name
  THEN CHOOSE j \in 1..Len(docs) :
         docs[j].file_name = name /\ \A h \in (j + 1)..Len(docs) : docs[h].file_name # name
  ELSE 0

\* the while loop over the stack, popping from its end
RECURSIVE ReachFrom(_, _, _)
ReachFrom(docs, stack, visited) ==
  IF stack = <<>> THEN visited
  ELSE LET current == stack[Len(stack)]
           rest == SubSeq(stack, 1, Len(stack) - 1)
           doc == ByFileName(docs, current)
       IN IF current \in visited THEN ReachFrom(docs, rest, visited)
          ELSE IF doc = 0 THEN ReachFrom(docs, rest, visited \cup {current})
          ELSE LET deps == docs[doc].dependencies
                   live(d) == d.exists /\ ByFileName(docs, d.resolved_file_name) # 0
                   next == SelectSeq(deps, live)
               IN ReachFrom(docs,
                            rest \o [j \in 1..Len(next) |-> next[j].resolved_file_name],
                            visited \cup {current})

\* the number of times the body of the while loop runs
RECURSIVE ReachSteps(_, _, _)
ReachSteps(docs, stack, visited) ==
  IF stack = <<>> THEN 0
  ELSE LET current == stack[Len(stack)]
           rest == SubSeq(stack, 1, Len(stack) - 1)
           doc == ByFileName(docs, current)
       IN IF current \in visited THEN 1 + ReachSteps(docs, rest, visited)
          ELSE IF doc = 0 THEN 1 + ReachSteps(docs, rest, visited \cup {current})
          ELSE LET deps == docs[doc].dependencies
                   live(d) == d.exists /\ ByFileName(docs, d.resolved_file_name) # 0
                   next == SelectSeq(deps, live)
               IN 1 + ReachSteps(docs,
                                 rest \o [j \in 1..Len(next) |-> next[j].resolved_file_name],
                                 visited \cup {current})

\* mutant: the own file and the files it depends on directly
compute_reachable_schemas_direct(docs) ==
  [j \in 1..Len(docs) |->
     [docs[j] EXCEPT !.reachable_schema_files =
        {docs[j].file_name} \cup
        { docs[j].dependencies[k].resolved_file_name :
            k \in { h \in 1..Len(docs[j].dependencies) :
                      /\ docs[j].dependencies[h].exists
                      /\ ByFileName(docs, docs[j].dependencies[h].resolved_file_name) # 0 } }]]

compute_reachable_schemas(docs) ==
  [j \in 1..Len(docs) |->
     [docs[j] EXCEPT !.reachable_schema_files = ReachFrom(docs, <<docs[j].file_name>>, {})]]

ComputeReachableSchemas ==
  /\ pc = "compute_reachable_schemas"
  /\ schemas' = compute_reachable_schemas(schemas)
  /\ pc' = "build_catalog"
  /\ UNCHANGED <<input, i, components, by_qname, components_by_id, warnings,
                 incoming_dedupe, index_data, written, resolve_calls>>

(***************************************************************************)
(* build_catalog: the entries of the dict in insertion order, each a key   *)
(* (namespace, name) with its list of components                           *)
(***************************************************************************)
CatalogAdd(catalog, key, c) ==
  IF \E j \in 1..Len(catalog) : catalog[j].key = key
  THEN [j \in 1..Len(catalog) |->
          IF catalog[j].key = key
          THEN [catalog[j] EXCEPT !.components = Append(@, c)]
          ELSE catalog[j]]
  ELSE Append(catalog, [key |-> key, components |-> <<c>>])

RECURSIVE CatalogFrom(_, _, _)
CatalogFrom(order, comps, catalog) ==
  IF order = <<>> THEN catalog
  ELSE LET c == Head(order)
       IN CatalogFrom(Tail(order), comps,
                      CatalogAdd(catalog, <<comps[c].namespace, comps[c].name>>, c))

\* mutant: the catalog holds the components of the first schema only
build_catalog_first(docs, comps) == CatalogFrom(docs[1].components, comps, <<>>)

build_catalog(docs, comps) == CatalogFrom(ComponentOrder(docs), comps, <<>>)

\* by_qname.get(key, [])
CatalogGet(catalog, key) ==
  IF \E j \in 1..Len(catalog) : catalog[j].key = key
  THEN catalog[CHOOSE j \in 1..Len(catalog) : catalog[j].key = key].components
  ELSE <<>>

BuildCatalog ==
  /\ pc = "build_catalog"
  /\ by_qname' = build_catalog(schemas, components)
  /\ pc' = "resolve"
  /\ i' = 1
  /\ UNCHANGED <<input, schemas, components, components_by_id, warnings,
                 incoming_dedupe, index_data, written, resolve_calls>>

(***************************************************************************)
(* resolve_qname                                                           *)
(***************************************************************************)
FileOf(c) == schemas[components[c].schema].file_name

\* `if expected_kinds:` keeps the matches of an allowed kind; the empty set
\* stands for None
KindFilter(matches, expected_kinds) ==
  IF expected_kinds # {}
  THEN LET allowed(c) == components[c].kind \in expected_kinds
       IN SelectSeq(matches, allowed)
  ELSE matches

\* mutant: a prefix the file does not declare stands for the target namespace
QNameNamespaceOfTarget(q, schema) ==
  IF ~q.has \/ q.prefix \notin DOMAIN schema.nsmap THEN schema.target_namespace
  ELSE schema.nsmap[q.prefix]

\* the namespace of a qualified name in a schema
QNameNamespace(q, schema) ==
  IF ~q.has THEN schema.target_namespace
  ELSE IF q.prefix \in DOMAIN schema.nsmap THEN schema.nsmap[q.prefix]
  ELSE ""

IsBuiltin(q, namespace) ==
  \/ namespace = BUILTIN_NS
  \/ q.has /\ q.prefix \in {PrefixXs, PrefixXsd} /\ namespace \in {"", BUILTIN_NS}

\* the components of every catalog entry of that local name, whatever its
\* namespace
RECURSIVE LocalMatches(_, _, _)
LocalMatches(catalog, local, expected_kinds) ==
  IF catalog = <<>> THEN <<>>
  ELSE (IF Head(catalog).key[2] # local THEN <<>>
        ELSE KindFilter(Head(catalog).components, expected_kinds))
       \o LocalMatches(Tail(catalog), local, expected_kinds)

\* mutant: no scan of the catalog by local name
UnprefixedFallbackOff(matches, q, catalog, expected_kinds) == matches

\* `if not matches and prefix is None`
UnprefixedFallback(matches, q, catalog, expected_kinds) ==
  IF matches = <<>> /\ ~q.has
  THEN LET local_matches == LocalMatches(catalog, q.local, expected_kinds)
       IN IF Len(local_matches) = 1 THEN local_matches ELSE matches
  ELSE matches

\* mutant: the matches in reachable files are taken also when there are none
NarrowReachableOnly(matches, schema) ==
  IF Len(matches) > 1 /\ schema.reachable_schema_files # {}
  THEN LET reachable(c) == FileOf(c) \in schema.reachable_schema_files
       IN SelectSeq(matches, reachable)
  ELSE matches

\* `if len(matches) > 1 and schema.reachable_schema_files`
NarrowReachable(matches, schema) ==
  IF Len(matches) > 1 /\ schema.reachable_schema_files # {}
  THEN LET reachable(c) == FileOf(c) \in schema.reachable_schema_files
           reachable_matches == SelectSeq(matches, reachable)
       IN IF reachable_matches # <<>> THEN reachable_matches ELSE matches
  ELSE matches

\* mutant: no narrowing to the file of the referring schema
NarrowSameSchemaOff(matches, schema) == matches

\* `if len(matches) > 1`
NarrowSameSchema(matches, schema) ==
  IF Len(matches) > 1
  THEN LET same(c) == FileOf(c) = schema.file_name
           same_schema == SelectSeq(matches, same)
       IN IF same_schema # <<>> THEN same_schema ELSE matches
  ELSE matches

\* mutant: a reason only for an unknown prefix
UnresolvedReasonPrefixOnly(q, namespace, is_builtin, matches) ==
  IF ~is_builtin /\ matches = <<>> /\ q.has /\ q.prefix # <<>> /\ namespace = ""
  THEN "Unknown namespace prefix"
  ELSE ""

UnresolvedReason(q, namespace, is_builtin, matches) ==
  IF ~is_builtin /\ matches = <<>>
  THEN IF q.has /\ q.prefix # <<>> /\ namespace = ""
       THEN "Unknown namespace prefix"
       ELSE "No matching component found"
  ELSE ""

resolve_qname(raw_qname, schema, catalog, expected_kinds) ==
  LET q == parse_qname(raw_qname)
      namespace == QNameNamespace(q, schema)
      is_builtin == IsBuiltin(q, namespace)
      found == KindFilter(CatalogGet(catalog, <<namespace, q.local>>), expected_kinds)
      matches == NarrowSameSchema(
                   NarrowReachable(
                     UnprefixedFallback(found, q, catalog, expected_kinds), schema), schema)
  IN [raw |-> raw_qname,
      namespace |-> namespace,
      local |-> q.local,
      is_builtin |-> is_builtin,
      target_ids |-> [j \in 1..Len(matches) |-> components[matches[j]].id],
      ambiguous |-> Len(matches) > 1,
      unresolved_reason |-> UnresolvedReason(q, namespace, is_builtin, matches)]

expected_kinds_for_attr(attr_name, owner) ==
  IF attr_name \in {"type", "base"} THEN {"complexType", "simpleType"}
  ELSE IF attr_name = "itemType" THEN {"simpleType"}
  ELSE IF attr_name = "memberTypes" THEN {"simpleType"}
  ELSE IF attr_name = "substitutionGroup" THEN {"element"}
  ELSE IF attr_name = "ref" /\ owner \in {"element", "attribute", "group", "attributeGroup"}
       THEN {owner}
  ELSE {}

(***************************************************************************)
(* collect_references_for_component                                        *)
(***************************************************************************)
\* node is the position of the node in component.node.iter(); the first is
\* component.node itself
build_context(component, node) ==
  LET own == Chars[component.kind] \o <<":">> \o component.name
      n == component.node[node]
      node_name == IF n.name # NoText THEN n.name
                   ELSE IF n.ref # NoText THEN n.ref
                   ELSE Chars.anonymous
  IN IF node = 1 THEN own
     ELSE own \o Chars.within \o Chars[n.tag] \o <<":">> \o node_name

\* str.split(): the runs of characters that are no white space
RECURSIVE SplitSpaces(_, _)
SplitSpaces(text, word) ==
  IF text = <<>> THEN (IF word = <<>> THEN <<>> ELSE <<word>>)
  ELSE IF Head(text) \in SpaceChars
       THEN (IF word = <<>> THEN <<>> ELSE <<word>>) \o SplitSpaces(Tail(text), <<>>)
       ELSE SplitSpaces(Tail(text), Append(word, Head(text)))

\* the values one attribute of one node contributes
AttrValues(n, attr_name) ==
  IF n[attr_name] = NoText THEN <<>>
  ELSE IF attr_name = "memberTypes" THEN SplitSpaces(n[attr_name], <<>>)
  ELSE <<n[attr_name]>>

\* the (node, attribute, value) triples in the order of the three loops
RECURSIVE FoundValues(_, _, _)
FoundValues(component, node, attr) ==
  IF node > Len(component.node) THEN <<>>
  ELSE IF attr > Len(RefAttrNames) THEN FoundValues(component, node + 1, 1)
  ELSE LET values == AttrValues(component.node[node], RefAttrNames[attr])
       IN [j \in 1..Len(values) |->
             [node |-> node, attr_name |-> RefAttrNames[attr], value |-> values[j]]]
          \o FoundValues(component, node, attr + 1)

RECURSIVE DedupedReferences(_, _, _, _, _)
DedupedReferences(found, component, catalog, dedupe, references) ==
  IF found = <<>> THEN references
  ELSE LET f == Head(found)
           expected_kinds == expected_kinds_for_attr(f.attr_name, component.node[f.node].tag)
           resolution == resolve_qname(f.value, schemas[component.schema], catalog, expected_kinds)
           context == build_context(component, f.node)
           key == <<f.attr_name, f.value, context>>
       IN IF key \in dedupe
          THEN DedupedReferences(Tail(found), component, catalog, dedupe, references)
          ELSE DedupedReferences(Tail(found), component, catalog, dedupe \cup {key},
                 Append(references,
                        [attr_name |-> f.attr_name, raw_value |-> f.value,
                         context |-> context, resolution |-> resolution]))

\* the calls of resolve_qname the loops make, in their order: one for every
\* value found, before the test of `key in dedupe`
ResolveCalls(component) ==
  LET found == FoundValues(component, 1, 1)
  IN [j \in 1..Len(found) |->
        [component |-> component.id,
         key |-> <<found[j].attr_name, found[j].value, build_context(component, found[j].node)>>]]

collect_references_for_component(component, catalog) ==
  LET references == DedupedReferences(FoundValues(component, 1, 1), component, catalog, {}, <<>>)
  IN SortedValues([j \in 1..Len(references) |->
       [key |-> <<Chars[references[j].attr_name], references[j].raw_value, references[j].context>>,
        val |-> references[j]]])

(***************************************************************************)
(* The field flattener: collect_element_fields, collect_attribute_fields.  *)
(* A field is its id, path, depth, name, raw type or ref and resolution;   *)
(* its occurrence or use, documentation and restrictions, which are read   *)
(* off the node alone, are not part of the model.                          *)
(***************************************************************************)
CONTAINER_TAGS ==
  {"sequence", "choice", "all", "group", "complexType", "complexContent",
   "simpleContent", "extension", "restriction"}

\* list(node): the positions of the children of the node at position p
ChildrenOf(nodes, p) ==
  LET isChild(j) == j > 1 /\ nodes[j].parent = p
  IN SelectSeq([j \in 1..Len(nodes) |-> j], isChild)

\* the nodes a path of child tags selects below the nodes kids, in document
\* order
RECURSIVE FindFrom(_, _, _)
FindFrom(nodes, kids, tags) ==
  IF kids = <<>> THEN <<>>
  ELSE (IF nodes[Head(kids)].tag # Head(tags) THEN <<>>
        ELSE IF Len(tags) = 1 THEN <<Head(kids)>>
        ELSE FindFrom(nodes, ChildrenOf(nodes, Head(kids)), Tail(tags)))
       \o FindFrom(nodes, Tail(kids), tags)

\* node.find(path): the first node the path selects, 0 for None
Find(nodes, p, tags) ==
  LET all == FindFrom(nodes, ChildrenOf(nodes, p), tags)
  IN IF all = <<>> THEN 0 ELSE all[1]

InlineSelectors ==
  << <<"complexType", "complexContent", "extension">>,
     <<"complexType", "complexContent", "restriction">>,
     <<"complexType", "simpleContent", "extension">>,
     <<"complexType", "simpleContent", "restriction">> >>

infer_inline_type(nodes, p) ==
  LET withBase(k) == /\ Find(nodes, p, InlineSelectors[k]) # 0
                     /\ nodes[Find(nodes, p, InlineSelectors[k])].base # NoText
      simple_type == Find(nodes, p, <<"simpleType">>)
      restriction == IF simple_type = 0 THEN 0 ELSE Find(nodes, simple_type, <<"restriction">>)
  IN IF \E k \in 1..Len(InlineSelectors) : withBase(k)
     THEN nodes[Find(nodes, p, InlineSelectors[
                   CHOOSE k \in 1..Len(InlineSelectors) :
                     withBase(k) /\ \A h \in 1..(k - 1) : ~withBase(h)])].base
     ELSE IF restriction = 0 THEN NoText
     ELSE nodes[restriction].base

\* the number of chunks of path.split("/") that are not empty
RECURSIVE CountChunks(_, _)
CountChunks(path, inChunk) ==
  IF path = <<>> THEN 0
  ELSE IF Head(path) = "/" THEN CountChunks(Tail(path), FALSE)
  ELSE (IF inChunk THEN 0 ELSE 1) + CountChunks(Tail(path), TRUE)

field_depth(path) ==
  IF CountChunks(path, FALSE) - 1 > 0 THEN CountChunks(path, FALSE) - 1 ELSE 0

resolve_optional(raw_value, component, catalog, expected_kinds) ==
  IF raw_value = NoText THEN None
  ELSE Some(resolve_qname(raw_value, schemas[component.schema], catalog, expected_kinds))

\* `child.get("name") or child.get("ref") or "(anonymous)"`
FieldName(n) ==
  IF n.name # NoText THEN n.name ELSE IF n.ref # NoText THEN n.ref ELSE Chars.anonymous

\* the seed of the paths of the fields of a component
FieldSeed(component) ==
  IF component.kind \in {"element", "complexType"} THEN component.name ELSE NoText

\* joins a path and the next segment
PathJoin(current_path, segment) ==
  IF current_path # NoText THEN current_path \o <<"/">> \o segment ELSE segment

\* the kinds an element field is resolved against
ElementFieldKinds(n) ==
  IF n.ref # NoText THEN {"element"} ELSE {"complexType", "simpleType"}

\* the ElementField of the element child at position child
ElementFieldOf(component, catalog, child, current_path, counter) ==
  LET n == component.node[child]
      path == PathJoin(current_path, FieldName(n))
      explicit == IF n.ref # NoText THEN n.ref ELSE n.type
      raw_type_or_ref == IF explicit # NoText THEN explicit
                         ELSE infer_inline_type(component.node, child)
  IN [id |-> component.id \o Chars.elementField \o Digits(counter),
      path |-> path,
      depth |-> field_depth(path),
      name |-> FieldName(n),
      raw_type_or_ref |-> raw_type_or_ref,
      resolution |-> resolve_optional(raw_type_or_ref, component, catalog, ElementFieldKinds(n))]

\* walk(node, current_path) of collect_element_fields over the children kids
\* of node; st = [fields, counter]
RECURSIVE WalkElements(_, _, _, _, _)
WalkElements(component, catalog, kids, current_path, st) ==
  IF kids = <<>> THEN st
  ELSE LET child == Head(kids)
           n == component.node[child]
           below == ChildrenOf(component.node, child)
       IN IF n.tag = "element"
          THEN LET field == ElementFieldOf(component, catalog, child, current_path, st.counter + 1)
                   entered == [fields |-> Append(st.fields, field), counter |-> st.counter + 1]
               IN WalkElements(component, catalog, Tail(kids), current_path,
                               WalkElements(component, catalog, below, field.path, entered))
          ELSE IF n.tag \in CONTAINER_TAGS
          THEN WalkElements(component, catalog, Tail(kids), current_path,
                            WalkElements(component, catalog, below, current_path, st))
          ELSE WalkElements(component, catalog, Tail(kids), current_path, st)

collect_element_fields(component, catalog) ==
  LET walked == WalkElements(component, catalog, ChildrenOf(component.node, 1),
                             FieldSeed(component), [fields |-> <<>>, counter |-> 0])
  IN SortedValues([j \in 1..Len(walked.fields) |->
       [key |-> <<walked.fields[j].path>>, val |-> walked.fields[j]]])

\* the kinds an attribute field is resolved against
AttributeFieldKinds(n) ==
  IF n.ref # NoText THEN {"attribute"} ELSE {"simpleType"}

\* the AttributeField of the attribute or attributeGroup child at position
\* child
AttributeFieldOf(component, catalog, child, current_path, counter) ==
  LET n == component.node[child]
      explicit == IF n.type # NoText THEN n.type ELSE n.ref
      raw_type_or_ref == IF n.tag = "attributeGroup" THEN n.ref
                         ELSE IF explicit # NoText THEN explicit
                         ELSE infer_inline_type(component.node, child)
      name == IF n.tag = "attribute" THEN FieldName(n)
              ELSE IF n.ref # NoText THEN n.ref ELSE Chars.attributeGroupName
      path == IF n.tag = "attribute"
              THEN PathJoin(current_path, <<"@">> \o name)
              ELSE PathJoin(current_path, Chars.atGroup \o n.ref)
      expected_kinds == IF n.tag = "attribute" THEN AttributeFieldKinds(n)
                        ELSE {"attributeGroup"}
  IN [id |-> component.id \o Chars.attributeField \o Digits(counter),
      path |-> path,
      depth |-> field_depth(path),
      name |-> name,
      raw_type_or_ref |-> raw_type_or_ref,
      resolution |-> resolve_optional(raw_type_or_ref, component, catalog, expected_kinds)]

\* walk(node, current_path) of collect_attribute_fields; st = [fields, counter]
RECURSIVE WalkAttributes(_, _, _, _, _)
WalkAttributes(component, catalog, kids, current_path, st) ==
  IF kids = <<>> THEN st
  ELSE LET child == Head(kids)
           n == component.node[child]
           below == ChildrenOf(component.node, child)
       IN IF n.tag \in {"attribute", "attributeGroup"}
          THEN LET field == AttributeFieldOf(component, catalog, child, current_path, st.counter + 1)
                   entered == [fields |-> Append(st.fields, field), counter |-> st.counter + 1]
               IN WalkAttributes(component, catalog, Tail(kids), current_path,
                                 WalkAttributes(component, catalog, below, current_path, entered))
          ELSE IF n.tag \in CONTAINER_TAGS
          THEN WalkAttributes(component, catalog, Tail(kids), current_path,
                              WalkAttributes(component, catalog, below, current_path, st))
          ELSE WalkAttributes(component, catalog, Tail(kids), current_path, st)

collect_attribute_fields(component, catalog) ==
  LET walked == WalkAttributes(component, catalog, ChildrenOf(component.node, 1),
                               FieldSeed(component), [fields |-> <<>>, counter |-> 0])
  IN SortedValues([j \in 1..Len(walked.fields) |->
       [key |-> <<walked.fields[j].path>>, val |-> walked.fields[j]]])

(***************************************************************************)
(* create_index: the loop over the schemas (warnings of the missing        *)
(* dependencies, registration and resolution of the components)            *)
(***************************************************************************)
MissingDependencyWarning(schema, dep) ==
  [code |-> "MISSING_DEPENDENCY",
   message |-> [file_name |-> schema.file_name, kind |-> dep.kind, location |-> dep.location],
   schemaId |-> schema.id,
   schemaFileName |-> schema.file_name,
   componentId |-> NoText]

\* mutant: `if not dep.exists`, without the test of dep.location
DependencyWarningsOfAbsent(schema) ==
  LET missing(dep) == ~dep.exists
      deps == SelectSeq(schema.dependencies, missing)
  IN [j \in 1..Len(deps) |-> MissingDependencyWarning(schema, deps[j])]

DependencyWarnings(schema) ==
  LET missing(dep) == dep.location # NoLocation /\ ~dep.exists
      deps == SelectSeq(schema.dependencies, missing)
  IN [j \in 1..Len(deps) |-> MissingDependencyWarning(schema, deps[j])]

\* components_by_id[id] = c: a new key goes last, a known key keeps its place
DictPut(dict, id, c) ==
  IF \E j \in 1..Len(dict) : dict[j].id = id
  THEN [j \in 1..Len(dict) |-> IF dict[j].id = id THEN [id |-> id, component |-> c] ELSE dict[j]]
  ELSE Append(dict, [id |-> id, component |-> c])

RECURSIVE RegisterAll(_, _)
RegisterAll(order, dict) ==
  IF order = <<>> THEN dict
  ELSE RegisterAll(Tail(order), DictPut(dict, components[Head(order)].id, Head(order)))

\* the calls of resolve_qname for the components order
RECURSIVE ResolveCallsOf(_)
ResolveCallsOf(order) ==
  IF order = <<>> THEN <<>>
  ELSE ResolveCalls(components[Head(order)]) \o ResolveCallsOf(Tail(order))

ResolveSchema ==
  /\ pc = "resolve"
  /\ i <= Len(schemas)
  /\ LET schema == schemas[i]
         own == {schema.components[j] : j \in 1..Len(schema.components)}
     IN /\ warnings' = warnings \o DependencyWarnings(schema)
        /\ components_by_id' = RegisterAll(schema.components, components_by_id)
        /\ components' =
             [c \in 1..Len(components) |->
                IF c \in own
                THEN [components[c] EXCEPT
                        !.element_fields = collect_element_fields(components[c], by_qname),
                        !.attribute_fields = collect_attribute_fields(components[c], by_qname),
                        !.references = collect_references_for_component(components[c], by_qname)]
                ELSE components[c]]
        /\ resolve_calls' = resolve_calls \o ResolveCallsOf(schema.components)
        /\ i' = IF i = Len(schemas) THEN 1 ELSE i + 1
        /\ pc' = IF i < Len(schemas) THEN "resolve"
                 ELSE IF components_by_id' = <<>> THEN "finish" ELSE "link"
  /\ UNCHANGED <<input, schemas, by_qname, incoming_dedupe, index_data, written>>

(***************************************************************************)
(* create_index: the loop over components_by_id.values() that writes the   *)
(* warnings of the unresolved references and the inbound edges             *)
(***************************************************************************)
\* components_by_id.get(id): 0 for None
DictGet(dict, id) ==
  IF \E j \in 1..Len(dict) : dict[j].id = id
  THEN dict[CHOOSE j \in 1..Len(dict) : dict[j].id = id].component
  ELSE 0

UnresolvedReferenceWarning(component, reference) ==
  [code |-> "UNRESOLVED_REFERENCE",
   message |-> [file_name |-> schemas[component.schema].file_name, kind |-> component.kind,
                name |-> component.name, raw_value |-> reference.raw_value],
   schemaId |-> schemas[component.schema].id,
   schemaFileName |-> schemas[component.schema].file_name,
   componentId |-> component.id]

\* mutant: the edge records the first target as its source
InboundReferenceFromTarget(component, reference) ==
  [source_id |-> reference.resolution.target_ids[1], attr_name |-> reference.attr_name,
   raw_value |-> reference.raw_value, context |-> reference.context]

InboundReference(component, reference) ==
  [source_id |-> component.id, attr_name |-> reference.attr_name,
   raw_value |-> reference.raw_value, context |-> reference.context]

\* mutant: the context is part of the edge key
EdgeKeyWithContext(target_id, component, reference) ==
  <<target_id, component.id, reference.attr_name, reference.raw_value, reference.context>>

EdgeKey(target_id, component, reference) ==
  <<target_id, component.id, reference.attr_name, reference.raw_value>>

\* the loop over the target ids of one reference; st = [comps, warns, dedupe]
RECURSIVE LinkTargets(_, _, _, _, _)
LinkTargets(target_ids, component, reference, dict, st) ==
  IF target_ids = <<>> THEN st
  ELSE LET target_id == Head(target_ids)
           target == DictGet(dict, target_id)
           edge_key == EdgeKey(target_id, component, reference)
       IN IF target = 0 \/ edge_key \in st.dedupe
          THEN LinkTargets(Tail(target_ids), component, reference, dict, st)
          ELSE LinkTargets(Tail(target_ids), component, reference, dict,
                 [st EXCEPT !.dedupe = @ \cup {edge_key},
                            !.comps[target].incoming =
                               Append(@, InboundReference(component, reference))])

\* the loop over the references of one component
RECURSIVE LinkReferences(_, _, _, _)
LinkReferences(references, component, dict, st) ==
  IF references = <<>> THEN st
  ELSE LET reference == Head(references)
       IN IF reference.resolution.target_ids = <<>>
          THEN LinkReferences(Tail(references), component, dict,
                 IF ~reference.resolution.is_builtin
                 THEN [st EXCEPT !.warns = Append(@, UnresolvedReferenceWarning(component, reference))]
                 ELSE st)
          ELSE LinkReferences(Tail(references), component, dict,
                 LinkTargets(reference.resolution.target_ids, component, reference, dict, st))

LinkComponent ==
  /\ pc = "link"
  /\ i <= Len(components_by_id)
  /\ LET component == components[components_by_id[i].component]
         st == LinkReferences(component.references, component, components_by_id,
                              [comps |-> components, warns |-> warnings, dedupe |-> incoming_dedupe])
     IN /\ components' = st.comps
        /\ warnings' = st.warns
        /\ incoming_dedupe' = st.dedupe
  /\ i' = IF i = Len(components_by_id) THEN 1 ELSE i + 1
  /\ pc' = IF i = Len(components_by_id) THEN "finish" ELSE "link"
  /\ UNCHANGED <<input, schemas, by_qname, components_by_id, index_data, written, resolve_calls>>

(***************************************************************************)
(* create_index: the sort of the inbound edges and the returned index      *)
(***************************************************************************)
SortedIncoming(incoming) ==
  SortedValues([j \in 1..Len(incoming) |->
    [key |-> <<incoming[j].source_id, Chars[incoming[j].attr_name],
               incoming[j].raw_value, incoming[j].context>>,
     val |-> incoming[j]]])

Registered(dict) == {dict[j].component : j \in 1..Len(dict)}

\* `for component in components_by_id.values(): component.incoming.sort(...)`
WithSortedIncoming(comps, dict) ==
  [c \in 1..Len(comps) |->
     IF c \in Registered(dict)
     THEN [comps[c] EXCEPT !.incoming = SortedIncoming(@)]
     ELSE comps[c]]

schema_to_json(schema, comps) ==
  LET isElement(c) == comps[c].kind = "element"
      roots == SelectSeq(schema.components, isElement)
  IN [id |-> schema.id,
      fileName |-> schema.file_name,
      targetNamespace |-> schema.target_namespace,
      rootElementIds |-> [j \in 1..Len(roots) |-> comps[roots[j]].id],
      componentIds |-> [j \in 1..Len(schema.components) |-> comps[schema.components[j]].id],
      dependencies |-> schema.dependencies]

component_to_json(component) ==
  [id |-> component.id,
   schemaId |-> schemas[component.schema].id,
   schemaFileName |-> schemas[component.schema].file_name,
   kind |-> component.kind,
   name |-> component.name,
   namespace |-> component.namespace,
   elementFields |-> component.element_fields,
   attributeFields |-> component.attribute_fields,
   references |-> component.references,
   usedBy |-> component.incoming]

IndexOf(docs, comps, dict, warns) ==
  LET schemas_sorted == SortedValues([j \in 1..Len(docs) |->
                          [key |-> <<docs[j].file_name>>, val |-> docs[j]]])
      components_sorted == SortedValues([j \in 1..Len(dict) |->
                             LET c == comps[dict[j].component]
                             IN [key |-> <<docs[c.schema].file_name, Chars[c.kind], c.name, c.id>>,
                                 val |-> c]])
      isElement(c) == comps[c].kind = "element"
  IN [summary |->
        [schemaCount |-> Len(schemas_sorted),
         componentCount |-> Len(components_sorted),
         rootElementCount |-> Cardinality({c \in 1..Len(comps) : isElement(c)}),
         warningCount |-> Len(warns)],
      warnings |-> warns,
      schemas |-> [j \in 1..Len(schemas_sorted) |-> schema_to_json(schemas_sorted[j], comps)],
      components |-> [j \in 1..Len(components_sorted) |-> component_to_json(components_sorted[j])]]

ReturnIndex ==
  /\ pc = "finish"
  /\ components' = WithSortedIncoming(components, components_by_id)
  /\ index_data' = Some(IndexOf(schemas, components', components_by_id, warnings))
  /\ pc' = "write_index"
  /\ UNCHANGED <<input, i, schemas, by_qname, components_by_id, warnings, incoming_dedupe, written, resolve_calls>>

(***************************************************************************)
(* main: write_index(index_data, output_path)                              *)
(***************************************************************************)
WriteIndex ==
  /\ pc = "write_index"
  /\ written' = index_data
  /\ pc' = "done"
  /\ UNCHANGED <<input, i, schemas, components, by_qname, components_by_id, warnings,
                 incoming_dedupe, index_data, resolve_calls>>

Next ==
  \/ ParseSchema
  \/ AssignComponentIds
  \/ ComputeReachableSchemas
  \/ BuildCatalog
  \/ ResolveSchema
  \/ LinkComponent
  \/ ReturnIndex
  \/ WriteIndex

Spec == Init /\ [][Next]_vars

\* the same program over the inputs with nested declarations
SpecFields == InitFields /\ [][Next]_vars

\* the same program over the inputs with chains and cycles of dependencies
SpecReach == InitReach /\ [][Next]_vars

(***************************************************************************)
(* Properties.                                                             *)
(***************************************************************************)
Range(seq) == {seq[j] : j \in 1..Len(seq)}

\* create_index has returned its index
Returned == index_data # None
Index == index_data[1]

\* C1: after create_index, every usedBy entry e of every component C names,
\* by e.source_id, a component D of the index, and D's references hold an
\* entry of the same attribute name and raw value whose target ids contain
\* the id of C.
C1_UsedByMirrorsReferences ==
  Returned =>
    \A C \in Range(Index.components) : \A e \in Range(C.usedBy) :
      \E D \in Range(Index.components) :
        /\ D.id = e.source_id
        /\ \E r \in Range(D.references) :
             /\ r.attr_name = e.attr_name
             /\ r.raw_value = e.raw_value
             /\ C.id \in Range(r.resolution.target_ids)

\* an inbound edge that comes from another component
C1_Witness ==
  /\ Returned
  /\ \E C \in Range(Index.components) : \E e \in Range(C.usedBy) : e.source_id # C.id

\* the inbound edges of T that come from S with that attribute and raw value
EdgesFrom(T, S, attr_name, raw_value) ==
  {j \in 1..Len(T.usedBy) :
     /\ T.usedBy[j].source_id = S.id
     /\ T.usedBy[j].attr_name = attr_name
     /\ T.usedBy[j].raw_value = raw_value}

\* C2: after create_index, every target id of every outgoing reference r of
\* every component S is the id of a component T of the index, and T carries
\* exactly one inbound edge for (T, S, r.attr_name, r.raw_value).
C2_OneInboundEdgePerReference ==
  Returned =>
    \A S \in Range(Index.components) : \A r \in Range(S.references) :
      \A t \in Range(r.resolution.target_ids) :
        /\ \E T \in Range(Index.components) : T.id = t
        /\ \A T \in Range(Index.components) :
             T.id = t => Cardinality(EdgesFrom(T, S, r.attr_name, r.raw_value)) = 1

\* one component with two resolved references that differ in their context
\* only, and one component that is a target of its own reference
C2_Witness ==
  /\ Returned
  /\ \E S \in Range(Index.components) : \E j, k \in 1..Len(S.references) :
       /\ j # k
       /\ S.references[j].attr_name = S.references[k].attr_name
       /\ S.references[j].raw_value = S.references[k].raw_value
       /\ S.references[j].context # S.references[k].context
       /\ S.references[j].resolution.target_ids # <<>>
  /\ \E S \in Range(Index.components) : \E r \in Range(S.references) :
       S.id \in Range(r.resolution.target_ids)

(***************************************************************************)
(* The candidates of a reference, read off the components themselves.      *)
(***************************************************************************)
Comps == 1..Len(components)
SchemaOf(c) == schemas[components[c].schema]

\* the kinds the attribute that carries reference r of component c expects
ExpectedKindsOf(c, r) ==
  UNION { expected_kinds_for_attr(r.attr_name, components[c].node[n].tag) :
            n \in { m \in 1..Len(components[c].node) :
                      /\ r.raw_value \in Range(AttrValues(components[c].node[m], r.attr_name))
                      /\ build_context(components[c], m) = r.context } }

Unprefixed(r) == ~parse_qname(r.raw_value).has

\* the kind-compatible components of the local name of r, in any namespace
Anywhere(c, r) ==
  { d \in Comps :
      /\ components[d].name = parse_qname(r.raw_value).local
      /\ ExpectedKindsOf(c, r) # {} => components[d].kind \in ExpectedKindsOf(c, r) }

\* those under the target namespace of the schema of c
UnderTargetNamespace(c, r) ==
  { d \in Anywhere(c, r) : components[d].namespace = SchemaOf(c).target_namespace }

InReachableFile(c, D) == { d \in D : FileOf(d) \in SchemaOf(c).reachable_schema_files }
InSameFile(c, D) == { d \in D : FileOf(d) = SchemaOf(c).file_name }

IdsOf(D) == { components[d].id : d \in D }

UnresolvedWarnings(warns) == { w \in Range(warns) : w.code = "UNRESOLVED_REFERENCE" }

\* C3: a reference whose namespace is the built-in namespace resolves to
\* is_builtin = TRUE and no target id, and no UNRESOLVED_REFERENCE warning
\* names it, whatever the files declare.
C3_BuiltinHasNoTarget ==
  \A c \in Comps : \A r \in Range(components[c].references) :
    r.resolution.namespace = BUILTIN_NS =>
      /\ r.resolution.is_builtin
      /\ r.resolution.target_ids = <<>>
      /\ ~\E w \in UnresolvedWarnings(warnings) :
            w.componentId = components[c].id /\ w.message.raw_value = r.raw_value

\* C4: an unprefixed reference with no kind-compatible component of its
\* local name under the target namespace of its schema and exactly one in
\* the whole input resolves to that component, not ambiguous, no reason.
C4_UnprefixedFallbackResolves ==
  \A c \in Comps : \A r \in Range(components[c].references) :
    ( /\ Unprefixed(r)
      /\ UnderTargetNamespace(c, r) = {}
      /\ Cardinality(Anywhere(c, r)) = 1 ) =>
        /\ Len(r.resolution.target_ids) = 1
        /\ Range(r.resolution.target_ids) = IdsOf(Anywhere(c, r))
        /\ ~r.resolution.ambiguous
        /\ r.resolution.unresolved_reason = ""

\* such a reference whose one candidate lies in a file that is not reachable
\* from the file of the reference
C4_Witness ==
  \E c \in Comps : \E r \in Range(components[c].references) :
    /\ Unprefixed(r)
    /\ UnderTargetNamespace(c, r) = {}
    /\ Cardinality(Anywhere(c, r)) = 1
    /\ InReachableFile(c, Anywhere(c, r)) = {}
    /\ Len(r.resolution.target_ids) = 1

\* C5 as stated: an unprefixed type reference with two or more
\* kind-compatible components of its local name in the input has one
\* target only if the narrowing to the reachable files or to its own file
\* leaves one candidate, and is ambiguous with more than one target
\* otherwise, however the candidates were found.
C5_AsStated ==
  \A c \in Comps : \A r \in Range(components[c].references) :
    ( /\ Unprefixed(r)
      /\ r.attr_name = "type"
      /\ Cardinality(Anywhere(c, r)) >= 2 ) =>
        IF Len(r.resolution.target_ids) = 1
        THEN \/ Cardinality(InReachableFile(c, Anywhere(c, r))) = 1
             \/ Cardinality(InSameFile(c, Anywhere(c, r))) = 1
        ELSE r.resolution.ambiguous /\ Len(r.resolution.target_ids) > 1

\* C5 amended: with two or more candidates under the target namespace of
\* its schema, an unprefixed reference has one target exactly when the
\* narrowing to the reachable files or to its own file leaves one of these
\* candidates (then that one is the target), and is ambiguous with more
\* than one target otherwise; with no candidate under the target namespace
\* and two or more by local name alone, it has no target, is not ambiguous
\* and, unless built-in, carries a reason.
C5_NarrowingOrAmbiguous ==
  \A c \in Comps : \A r \in Range(components[c].references) :
    Unprefixed(r) =>
      LET under == UnderTargetNamespace(c, r)
          reach == InReachableFile(c, under)
          same  == InSameFile(c, under)
          res   == r.resolution
      IN /\ Cardinality(under) >= 2 =>
              IF Cardinality(same) = 1 THEN Range(res.target_ids) = IdsOf(same) /\ ~res.ambiguous
              ELSE IF Cardinality(reach) = 1 THEN Range(res.target_ids) = IdsOf(reach) /\ ~res.ambiguous
              ELSE res.ambiguous /\ Len(res.target_ids) > 1
         /\ (under = {} /\ Cardinality(Anywhere(c, r)) >= 2) =>
              /\ res.target_ids = <<>>
              /\ ~res.ambiguous
              /\ res.is_builtin \/ res.unresolved_reason # ""

\* one reference left ambiguous by two candidates under its target
\* namespace, and one reference left without target by two candidates of
\* another namespace
C5_Witness ==
  /\ \E c \in Comps : \E r \in Range(components[c].references) :
       /\ Unprefixed(r)
       /\ Cardinality(UnderTargetNamespace(c, r)) >= 2
       /\ r.resolution.ambiguous
  /\ \E c \in Comps : \E r \in Range(components[c].references) :
       /\ Unprefixed(r)
       /\ UnderTargetNamespace(c, r) = {}
       /\ Cardinality(Anywhere(c, r)) >= 2
       /\ r.resolution.target_ids = <<>>

\* C6: once assign_component_ids has run, every component has an id and
\* the ids are pairwise distinct; the returned index lists every component
\* once, under its id.
C6_IdsDistinct ==
  /\ pc \notin {"parse", "assign_component_ids", "aborted"} =>
       /\ \A c \in Comps : components[c].id # NoText
       /\ \A c, d \in Comps : c # d => components[c].id # components[d].id
  /\ Returned =>
       /\ Len(Index.components) = Len(components)
       /\ \A c \in Comps :
            Cardinality({j \in 1..Len(Index.components) :
                           /\ Index.components[j].id = components[c].id
                           /\ Index.components[j].kind = components[c].kind
                           /\ Index.components[j].name = components[c].name
                           /\ Index.components[j].schemaFileName = FileOf(c)}) = 1

\* two components of one kind and name in two files of one schema id, both
\* in the returned index
C6_Witness ==
  /\ Returned
  /\ \E c, d \in Comps :
       /\ components[c].schema # components[d].schema
       /\ SchemaOf(c).id = SchemaOf(d).id
       /\ components[c].kind = components[d].kind
       /\ components[c].name = components[d].name

\* C7: a reference whose local name is the name of no component and whose
\* namespace is not the built-in one never aborts the run; in the returned
\* index it has no target id and a reason, and an UNRESOLVED_REFERENCE
\* warning carries the id of its component and of its schema.  Every
\* UNRESOLVED_REFERENCE warning belongs to a reference of the component it
\* names that has no target id and is not built-in.
C7_UnresolvedWarned ==
  /\ pc = "aborted" => \E f \in 1..Len(input) : input[f].root # "schema"
  /\ Returned =>
       /\ \A c \in Comps : \A r \in Range(components[c].references) :
            ( /\ \A d \in Comps : components[d].name # parse_qname(r.raw_value).local
              /\ r.resolution.namespace # BUILTIN_NS ) =>
                /\ r.resolution.target_ids = <<>>
                /\ r.resolution.unresolved_reason # ""
                /\ \E w \in UnresolvedWarnings(Index.warnings) :
                     /\ w.componentId = components[c].id
                     /\ w.schemaId = SchemaOf(c).id
                     /\ w.message.raw_value = r.raw_value
       /\ \A w \in UnresolvedWarnings(Index.warnings) :
            \E c \in Comps : \E r \in Range(components[c].references) :
              /\ w.componentId = components[c].id
              /\ w.message.raw_value = r.raw_value
              /\ r.resolution.target_ids = <<>>
              /\ ~r.resolution.is_builtin

\* a returned index with a reference to a name no component has
C7_Witness ==
  /\ Returned
  /\ \E c \in Comps : \E r \in Range(components[c].references) :
       /\ \A d \in Comps : components[d].name # parse_qname(r.raw_value).local
       /\ r.resolution.namespace # BUILTIN_NS
  /\ UnresolvedWarnings(Index.warnings) # {}

\* the dependency names an existing local file: resolved.exists()
ResolvesToLocalFile(location) == location.scheme = "" /\ PathExists(input, location)

MissingWarningsFor(warns, f, directive) ==
  { k \in 1..Len(warns) :
      /\ warns[k].code = "MISSING_DEPENDENCY"
      /\ warns[k].schemaId = schemas[f].id
      /\ warns[k].schemaFileName = schemas[f].file_name
      /\ warns[k].message.kind = directive.kind
      /\ warns[k].message.location = directive.location }

\* C8: once the loop over the schemas is over, a dependency with a
\* schemaLocation that names no existing local file (a network location
\* included) has exists = FALSE and one MISSING_DEPENDENCY warning of its
\* schema's id (as many warnings as the schema has such directives of that
\* kind and location); a dependency whose file exists, or without
\* schemaLocation, has none; no other MISSING_DEPENDENCY warning exists.
C8_MissingDependencyWarned ==
  pc \in {"link", "finish", "write_index", "done"} =>
    /\ \A f \in 1..Len(input) : \A j \in 1..Len(input[f].deps) :
         LET d == input[f].deps[j]
             alike == {k \in 1..Len(input[f].deps) : input[f].deps[k] = d}
             warned == MissingWarningsFor(warnings, f, d)
         IN IF d.location # NoLocation /\ ~ResolvesToLocalFile(d.location)
            THEN /\ ~schemas[f].dependencies[j].exists
                 /\ Cardinality(warned) = Cardinality(alike)
            ELSE /\ warned = {}
                 /\ schemas[f].dependencies[j].exists = (d.location # NoLocation)
    /\ \A k \in 1..Len(warnings) :
         warnings[k].code = "MISSING_DEPENDENCY" =>
           \E f \in 1..Len(input) : \E j \in 1..Len(input[f].deps) :
             k \in MissingWarningsFor(warnings, f, input[f].deps[j])
    /\ Returned => Index.warnings = warnings

\* a finished run with a dependency on a local file that does not exist and
\* a dependency on a network location
C8_Witness ==
  /\ pc = "done"
  /\ \E f \in 1..Len(input) : \E j \in 1..Len(input[f].deps) :
       /\ input[f].deps[j].location.scheme = ""
       /\ input[f].deps[j].location # NoLocation
       /\ ~ResolvesToLocalFile(input[f].deps[j].location)
  /\ \E f \in 1..Len(input) : \E j \in 1..Len(input[f].deps) :
       input[f].deps[j].location.scheme # ""

HasBadRoot == \E f \in 1..Len(input) : input[f].root # "schema"

\* C9: when a file of the input has a root that is no schema root, the run
\* never leaves the parsing loop other than by the error: it runs on to the
\* error, no id is assigned, no catalog is built, no component is resolved
\* or linked, no warning is collected, create_index returns nothing and
\* write_index writes nothing.
C9_BadRootAbortsRun ==
  HasBadRoot =>
    /\ pc \in {"parse", "aborted"}
    /\ pc = "parse" => ENABLED ParseSchema
    /\ index_data = None
    /\ written = None
    /\ by_qname = <<>>
    /\ components_by_id = <<>>
    /\ warnings = <<>>
    /\ incoming_dedupe = {}
    /\ \A c \in Comps :
         /\ components[c].id = NoText
         /\ components[c].references = <<>>
         /\ components[c].incoming = <<>>

\* the run aborted at a later file, after a file with a component was parsed
C9_Witness ==
  /\ pc = "aborted"
  /\ schemas # <<>>
  /\ components # <<>>

Ingested == Len(schemas) = Len(input)
IdsAssigned == \A c \in Comps : components[c].id # NoText
CatalogBuilt ==
  \A c \in Comps :
    c \in Range(CatalogGet(by_qname, <<components[c].namespace, components[c].name>>))
ReachableComputed ==
  \A s \in 1..Len(schemas) : schemas[s].file_name \in schemas[s].reachable_schema_files
AllRegistered == Registered(components_by_id) = Comps

\* a step that resolves a qualified name: it gives a component a reference
ResolveStep == \E c \in Comps : components'[c].references # components[c].references
\* a step that writes the inbound edges of a component
LinkStep == \E c \in Comps : components'[c].incoming # components[c].incoming

\* C10: (1) a step that resolves a qualified name starts with every file
\* ingested, every id assigned, the whole catalog built and every reachable
\* set computed, and none of these changes from then on; (2) a step that
\* writes inbound edges starts with every component registered and
\* resolved, and from the first inbound edge on no outgoing reference
\* changes.
C10_Barriers ==
  [][ /\ ResolveStep =>
           /\ Ingested /\ IdsAssigned /\ CatalogBuilt /\ ReachableComputed
           /\ schemas' = schemas /\ by_qname' = by_qname
           /\ \A c \in Comps : components'[c].id = components[c].id
      /\ LinkStep => AllRegistered /\ pc # "resolve"
      /\ (LinkStep \/ \E c \in Comps : components[c].incoming # <<>>) =>
           /\ Len(components') = Len(components)
           /\ \A c \in Comps : components'[c].references = components[c].references
    ]_vars

\* inbound edges are written in a run over two files, each with resolved
\* references
C10_Witness ==
  /\ pc = "link"
  /\ Len(schemas) = 2
  /\ \A s \in 1..2 : \E c \in Comps :
       components[c].schema = s /\ components[c].references # <<>>
  /\ \E c \in Comps : components[c].incoming # <<>>

(***************************************************************************)
(* The result of resolve_qname, read off the components.                   *)
(***************************************************************************)
\* the namespace the raw value of r names in the schema of c
NamespaceFor(c, r) ==
  LET q == parse_qname(r.raw_value)
  IN IF ~q.has THEN SchemaOf(c).target_namespace
     ELSE IF q.prefix \in DOMAIN SchemaOf(c).nsmap THEN SchemaOf(c).nsmap[q.prefix]
     ELSE ""

\* a prefix that is not empty and that the schema of c does not declare
UnknownPrefix(c, raw) ==
  LET q == parse_qname(raw)
  IN q.has /\ q.prefix # <<>> /\ q.prefix \notin DOMAIN SchemaOf(c).nsmap

\* the candidates the lookup and the unprefixed fallback find (steps 4 and 5)
Found(c, r) ==
  LET named == { d \in Anywhere(c, r) : components[d].namespace = NamespaceFor(c, r) }
  IN IF named # {} THEN named
     ELSE IF Unprefixed(r) /\ Cardinality(Anywhere(c, r)) = 1 THEN Anywhere(c, r)
     ELSE {}

\* the candidates the two tie-breaks leave (steps 6 and 7)
AfterReachable(c, r) ==
  IF Cardinality(Found(c, r)) > 1 /\ InReachableFile(c, Found(c, r)) # {}
  THEN InReachableFile(c, Found(c, r))
  ELSE Found(c, r)

Survivors(c, r) ==
  IF Cardinality(AfterReachable(c, r)) > 1 /\ InSameFile(c, AfterReachable(c, r)) # {}
  THEN InSameFile(c, AfterReachable(c, r))
  ELSE AfterReachable(c, r)

\* the resolutions of the fields of component c
FieldResolutions(c) ==
  { f.resolution[1] : f \in { g \in Range(components[c].element_fields)
                                     \cup Range(components[c].attribute_fields) :
                                 g.resolution # None } }

\* C11: for every reference of every component, the target ids are the ids
\* of the candidates that survive, each once; ambiguous holds exactly when
\* more than one survives; the unresolved reason is set exactly when the
\* reference is not built-in and none survives, and it is then the message
\* of the unknown prefix exactly when a prefix was given that the schema
\* does not declare.  The resolutions of the fields relate ambiguous, the
\* reason and the target ids in the same way.
C11_ResultOfResolveQName ==
  \A c \in Comps :
    /\ \A r \in Range(components[c].references) :
         LET res == r.resolution
         IN /\ Range(res.target_ids) = IdsOf(Survivors(c, r))
            /\ Len(res.target_ids) = Cardinality(Survivors(c, r))
            /\ res.ambiguous <=> Cardinality(Survivors(c, r)) > 1
            /\ res.ambiguous <=> Len(res.target_ids) > 1
            /\ res.unresolved_reason # "" <=> (~res.is_builtin /\ Survivors(c, r) = {})
            /\ res.unresolved_reason # "" =>
                 (res.unresolved_reason = "Unknown namespace prefix"
                    <=> UnknownPrefix(c, r.raw_value))
    /\ \A res \in FieldResolutions(c) :
         /\ res.ambiguous <=> Len(res.target_ids) > 1
         /\ res.unresolved_reason # "" <=> (~res.is_builtin /\ res.target_ids = <<>>)
         /\ res.unresolved_reason # "" =>
              (res.unresolved_reason = "Unknown namespace prefix" <=> UnknownPrefix(c, res.raw))

\* references of three outcomes in one run: several targets, no target
\* behind a prefix the schema does not declare, no target behind an empty
\* prefix
C11_Witness ==
  /\ pc = "done"
  /\ \E c \in Comps : \E r \in Range(components[c].references) : r.resolution.ambiguous
  /\ \E c \in Comps : \E r \in Range(components[c].references) :
       r.resolution.unresolved_reason = "Unknown namespace prefix"
  /\ \E c \in Comps : \E r \in Range(components[c].references) :
       /\ r.resolution.unresolved_reason = "No matching component found"
       /\ parse_qname(r.raw_value).has
       /\ parse_qname(r.raw_value).prefix = <<>>

\* the ids of the targets of reference r
TargetsOf(r) == Range(r.resolution.target_ids)

\* C12: for every reference of every component, the tie-breaks only narrow
\* what steps 4 and 5 found and never empty it: the targets are among the
\* candidates found, there is a target exactly when a candidate was found, a
\* single candidate is the target whatever its file, and of several
\* candidates those in reachable files are kept if there are any, and then,
\* if several are left, those in the file of the referring schema if there
\* are any.
C12_TieBreaksOnlyNarrow ==
  \A c \in Comps : \A r \in Range(components[c].references) :
    LET F == Found(c, r)
        R == IF InReachableFile(c, F) # {} THEN InReachableFile(c, F) ELSE F
        S == IF Cardinality(R) > 1 /\ InSameFile(c, R) # {} THEN InSameFile(c, R) ELSE R
    IN /\ TargetsOf(r) \subseteq IdsOf(F)
       /\ TargetsOf(r) # {} <=> F # {}
       /\ Cardinality(F) = 1 => TargetsOf(r) = IdsOf(F)
       /\ Cardinality(F) > 1 => TargetsOf(r) = IdsOf(S)

\* one reference with several candidates none of which is in a reachable
\* file, and one reference whose only candidate is in a file that is not
\* reachable
C12_Witness ==
  /\ pc = "done"
  /\ \E c \in Comps : \E r \in Range(components[c].references) :
       /\ Cardinality(Found(c, r)) > 1
       /\ InReachableFile(c, Found(c, r)) = {}
       /\ TargetsOf(r) # {}
  /\ \E c \in Comps : \E r \in Range(components[c].references) :
       /\ Cardinality(Found(c, r)) = 1
       /\ InReachableFile(c, Found(c, r)) = {}
       /\ TargetsOf(r) # {}

(***************************************************************************)
(* The reachable files, read off the dependencies.                         *)
(***************************************************************************)
FileNames == { schemas[j].file_name : j \in 1..Len(schemas) }

\* the files the schema of file name `name` depends on: the dependency is
\* marked existing and its resolved file name is a file of the input
EdgesOf(name) ==
  UNION { { d.resolved_file_name :
              d \in { e \in Range(schemas[j].dependencies) :
                        e.exists /\ e.resolved_file_name \in FileNames } } :
          j \in { k \in 1..Len(schemas) : schemas[k].file_name = name } }

\* compute_reachable_schemas has run
ReachableSet == pc \in {"build_catalog", "resolve", "link", "finish", "write_index", "done"}

\* the dependencies of all schemas, counted
RECURSIVE CountDependencies(_, _)
CountDependencies(docs, n) ==
  IF n = 0 THEN 0 ELSE Len(docs[n].dependencies) + CountDependencies(docs, n - 1)

\* C13: where compute_reachable_schemas is called, its loop ends for every
\* schema after at most one round for the start file and one for each
\* dependency of the input, cycles and self-imports included; and after the
\* call the reachable set of every schema holds its own file name, is closed
\* under the edges, and lies within every set of file names that holds the
\* own file name and is closed under the edges; so it holds no file name
\* that is not a file of the input.
C13_ReachableIsLeastClosedSet ==
  /\ pc = "compute_reachable_schemas" =>
       \A j \in 1..Len(schemas) :
         ReachSteps(schemas, <<schemas[j].file_name>>, {})
           <= 1 + CountDependencies(schemas, Len(schemas))
  /\ ReachableSet =>
       LET names == FileNames
           edges == [x \in names |-> EdgesOf(x)]
           closed == { X \in SUBSET names : \A x \in X : edges[x] \subseteq X }
       IN \A j \in 1..Len(schemas) :
            LET reach == schemas[j].reachable_schema_files
            IN /\ schemas[j].file_name \in reach
               /\ reach \in closed
               /\ \A X \in closed : schemas[j].file_name \in X => reach \subseteq X

\* one run with a file reached through another file only, two files that
\* reach each other, a file that includes itself, a dependency on a missing
\* file, a file that stays out of another file's set, and a dependency on
\* the copy of a file in the subdirectory
C13_Witness ==
  /\ pc = "done"
  /\ \E j \in 1..Len(schemas) :
       \E f \in schemas[j].reachable_schema_files :
         f # schemas[j].file_name /\ f \notin EdgesOf(schemas[j].file_name)
  /\ \E j, k \in 1..Len(schemas) :
       /\ j # k
       /\ schemas[k].file_name \in schemas[j].reachable_schema_files
       /\ schemas[j].file_name \in schemas[k].reachable_schema_files
  /\ \E j \in 1..Len(schemas) : schemas[j].file_name \in EdgesOf(schemas[j].file_name)
  /\ \E j \in 1..Len(schemas) : \E d \in Range(schemas[j].dependencies) :
       d.location # NoLocation /\ ~d.exists
  /\ \E j \in 1..Len(schemas) : schemas[j].reachable_schema_files # FileNames
  /\ \E j \in 1..Len(schemas) : \E d \in Range(schemas[j].dependencies) :
       d.location.dir = CopyDir /\ d.exists

(***************************************************************************)
(* The references of a component and the calls of the resolver.            *)
(***************************************************************************)
\* the distinct (attribute name, raw value, context) triples in the subtree
\* of component c
TriplesOf(c) ==
  { <<f.attr_name, f.value, build_context(components[c], f.node)>> :
      f \in Range(FoundValues(components[c], 1, 1)) }

\* the calls of resolve_qname made for component c with that triple
CallsFor(c, triple) ==
  { k \in 1..Len(resolve_calls) :
      resolve_calls[k].component = components[c].id /\ resolve_calls[k].key = triple }

\* C14: for every component whose references are collected, the resolver
\* was called exactly once for every distinct (attribute name, raw value,
\* context) triple of its subtree, and its references hold exactly one entry
\* for every distinct triple.
C14_OneResolveCallPerTriple ==
  \A c \in Registered(components_by_id) :
    /\ \A t \in TriplesOf(c) : Cardinality(CallsFor(c, t)) = 1
    /\ Len(components[c].references) = Cardinality(TriplesOf(c))
    /\ { <<r.attr_name, r.raw_value, r.context>> : r \in Range(components[c].references) }
         = TriplesOf(c)

(***************************************************************************)
(* The fields of a component, read off its tree.                           *)
(***************************************************************************)
\* the number of segments of a path between slashes that are not empty
Segments(path) ==
  Cardinality({ k \in 1..Len(path) : path[k] # "/" /\ (k = 1 \/ path[k - 1] = "/") })

\* the number of element nodes strictly between the root of the tree and
\* the node at position n
RECURSIVE ElementsAbove(_, _)
ElementsAbove(nodes, n) ==
  IF n = 1 \/ nodes[n].parent = 1 THEN 0
  ELSE (IF nodes[nodes[n].parent].tag = "element" THEN 1 ELSE 0)
       + ElementsAbove(nodes, nodes[n].parent)

\* the nodes of component c that an element field or an attribute field of
\* that name can come from
ElementNodes(c, f) ==
  { n \in 2..Len(components[c].node) :
      components[c].node[n].tag = "element" /\ FieldName(components[c].node[n]) = f.name }

AttributeNodes(c, f) ==
  { n \in 2..Len(components[c].node) :
      \/ /\ components[c].node[n].tag = "attribute"
         /\ FieldName(components[c].node[n]) = f.name
      \/ /\ components[c].node[n].tag = "attributeGroup"
         /\ components[c].node[n].ref = f.name }

\* C15: for every element field and attribute field of every component,
\* depth is the number of non-empty segments of the path minus one, and it
\* is the nesting level of the declaration: 1 directly under the root of the
\* component, one more for every element field the declaration is nested
\* in.
C15_DepthIsNestingLevel ==
  \A c \in Registered(components_by_id) :
    /\ \A f \in Range(components[c].element_fields) :
         /\ f.depth = Segments(f.path) - 1
         /\ \E n \in ElementNodes(c, f) : f.depth = 1 + ElementsAbove(components[c].node, n)
    /\ \A f \in Range(components[c].attribute_fields) :
         /\ f.depth = Segments(f.path) - 1
         /\ \E n \in AttributeNodes(c, f) : f.depth = 1 + ElementsAbove(components[c].node, n)

\* the node carries a ref and no type, or a type and no ref
CarriesRef(n) == n.ref # NoText /\ n.type = NoText
CarriesType(n) == n.type # NoText /\ n.ref = NoText

\* the resolution of the name that node n of component c carries, against
\* the kind of refKind for a ref and against both kinds of types for a type
ResolvedAs(c, n, refKind) ==
  IF CarriesRef(n)
  THEN Some(resolve_qname(n.ref, SchemaOf(c), by_qname, {refKind}))
  ELSE Some(resolve_qname(n.type, SchemaOf(c), by_qname, {"complexType", "simpleType"}))

\* C16: every element field and every attribute field that carries a ref is
\* resolved against the element kind, respectively the attribute kind, and
\* every one that carries a type is resolved against the kinds complexType
\* and simpleType.
C16_FieldKindsFollowCarrier ==
  \A c \in Registered(components_by_id) :
    /\ \A f \in Range(components[c].element_fields) : \A k \in ElementNodes(c, f) :
         LET n == components[c].node[k]
         IN (CarriesRef(n) \/ CarriesType(n)) => f.resolution = ResolvedAs(c, n, "element")
    /\ \A f \in Range(components[c].attribute_fields) : \A k \in AttributeNodes(c, f) :
         LET n == components[c].node[k]
         IN (n.tag = "attribute" /\ (CarriesRef(n) \/ CarriesType(n)))
              => f.resolution = ResolvedAs(c, n, "attribute")

\* the fields of a component of the index whose resolution has a target
ResolvedFields(S) ==
  { f \in Range(S.elementFields) \cup Range(S.attributeFields) :
      f.resolution # None /\ f.resolution[1].target_ids # <<>> }

\* C17: after create_index, for every component S and every field of S
\* whose resolution has a target id T, the references of S hold an entry of
\* the same raw value whose target ids contain T, the component of id T
\* carries an inbound edge from S, and no reference of S of that raw value
\* is left without target and warned about as unresolved.
C17_FieldLinksInReferenceGraph ==
  Returned =>
    \A S \in Range(Index.components) : \A f \in ResolvedFields(S) :
      /\ \A t \in Range(f.resolution[1].target_ids) :
           /\ \E r \in Range(S.references) :
                r.raw_value = f.raw_type_or_ref /\ t \in Range(r.resolution.target_ids)
           /\ \E T \in Range(Index.components) :
                T.id = t /\ \E e \in Range(T.usedBy) : e.source_id = S.id
      /\ ~ \E r \in Range(S.references) :
             /\ r.raw_value = f.raw_type_or_ref
             /\ r.resolution.target_ids = <<>>
             /\ \E w \in UnresolvedWarnings(Index.warnings) :
                  w.componentId = S.id /\ w.message.raw_value = r.raw_value

=============================================================================
